---- MODULE Spec2Model ----
(***************************************************************************)
(* Model of the geo proxy cache (geoCache, nominatimProxy) and of the      *)
(* image ingest pipeline (processAndUploadImage) of the cacao handlers.    *)
(* Time is counted in hours.  Each goroutine serves one call at a time;    *)
(* pc[g] is its position in the code and loc[g] holds its local variables. *)
(***************************************************************************)
EXTENDS Integers, FiniteSets, Sequences, TLC

VARIABLES clock,             \* time.Now(), in hours
          entries,           \* geoCache_.entries
          geoCacheSetCount,  \* the write counter
          muWriter,          \* geoCache_.mu: the goroutine holding the write lock
          muReaders,         \* geoCache_.mu: the goroutines holding a read lock
          pc,                \* position of every goroutine
          loc,               \* local variables of every goroutine
          setsDone,          \* history: calls of set that have returned
          sweeps,            \* history: sweeps that calls of set have run to the end
          lastSet,           \* history: what the last install per key stored, and when
          rows               \* the tastings table: per id, whether the row
                             \* exists and its photo_url

vars == <<clock, entries, geoCacheSetCount, muWriter, muReaders, pc, loc,
          setsDone, sweeps, lastSet, rows>>

(* ---------------------------- bounds ----------------------------------- *)

MaxTicks == 2          \* the clock advances at most this many times
MaxCacheSets == 2      \* calls of set in the cache-level specification
MaxSweepSets == 51     \* calls of set in the sweep-cadence specification

Goroutines == {1, 2}
(* two URLs that differ only in the order of their query parameters *)
Keys == {"q?a=1&b=2", "q?b=2&a=1"}
Bodies == {"b1", "b2"}
SweepBodies == {"b1"}  \* bodies stored in the sweep-cadence specification
Malformed == {"%"}     \* a URL that http.NewRequestWithContext rejects
URLs == Keys \cup Malformed
IngestURLs == {"q?a=1&b=2"} \cup Malformed   \* geo URLs requested next to uploads
MaxProxySets == 2      \* stores made by nominatimProxy calls

(* ------------------------ program constants ---------------------------- *)

SweepEvery == 50       \* geoCacheSetCount%50 == 0
GeoTTL == 24           \* 24*time.Hour
StatusOK == 200
StatusNotFound == 404
StatusBadRequest == 400
StatusInternalServerError == 500
StatusBadGateway == 502
MaxUploadSize == 10485760   \* 10 << 20
MaxImageWidth == 1200
JpegMaxDim == 65536         \* 1 << 16, the limit of jpeg.Encode

(* the statuses the upstream answers with *)
Statuses == {StatusOK, StatusNotFound}

(* how a network call ends: with an answer, or with the error of a         *)
(* cancelled context, of the client's timeout, or of the transport         *)
NetResults == {"ok", "cancelled", "timeout", "failed"}
BasicResults == {"ok", "failed"}

(* the clock advances by two thirds of the TTL, so that a lookup can fall  *)
(* on an expiry (ttl = TickStep), inside a TTL window and after it         *)
TickStep == (2 * GeoTTL) \div 3
TTLs == {TickStep, GeoTTL}

None == 0
Nil == ""
IngestBodies == {"b1", Nil}           \* bodies answered next to uploads

(* the zero value a map read yields for a missing key, with ok = false *)
Absent == [ok |-> FALSE, body |-> Nil, expiresAt |-> 0]

NoSet == [set |-> FALSE, body |-> Nil, at |-> 0, ttl |-> 0, status |-> 0]

Idle == [op |-> "none", key |-> Nil, body |-> Nil, ttl |-> 0, e |-> Absent,
         seen |-> NoSet, gone |-> {}, doCleanup |-> FALSE, now |-> 0, tnow |-> 0,
         rbody |-> Nil, rok |-> FALSE,
         \* nominatimProxy: resp.StatusCode, what happened, what was written to w
         status |-> 0, outcome |-> "none", wstatus |-> 0, wbody |-> Nil,
         \* the error a network call ended with
         cause |-> "none",
         \* history: upstream GETs and storage POSTs of this call, stores made
         gets |-> 0, posts |-> 0, installed |-> FALSE,
         \* processAndUploadImage: the input, the error kind, the URL returned
         img |-> Nil, err |-> "none", url |-> Nil, decoded |-> FALSE,
         supabaseURL |-> Nil, jwtKey |-> Nil, resized |-> FALSE, ow |-> 0,
         oh |-> 0, encoded |-> FALSE, fileName |-> Nil, upurl |-> Nil,
         \* history: the body the storage endpoint sent with a refusal
         \* and whether io.ReadAll read it to the end
         sent |-> Nil, readOK |-> TRUE,
         \* history: the time the object name was made from
         tname |-> 0,
         \* AddTasting, UpdateTasting: the request, the tasting id, and
         \* history: whether the handler has written the row
         form |-> Nil, id |-> Nil, rowWritten |-> FALSE,
         \* history: "config" if the call this goroutine made before failed
         \* on the configuration
         prevErr |-> "none",
         \* GeoSearch, GeoReverse: which handler serves the request, and
         \* history: the calls of nominatimProxy it has made
         handler |-> "none", calls |-> 0]

(* the tastings table starts with one row, which has a photo, and has     *)
(* room for one more                                                       *)
RowIDs == {"7", "8"}
StoredID == "7"
OldPhoto == "old.jpg"
NoRow == [exists |-> FALSE, photo |-> Nil]

(* time.Time.After and time.Time.Add *)
After(t, u) == t > u
Add(t, d) == t + d

(* sync.RWMutex *)
CanLock == muWriter = None /\ muReaders = {}
CanRLock == muWriter = None

Init ==
    /\ clock = 0
    /\ entries = [k \in URLs |-> Absent]
    /\ geoCacheSetCount = 0
    /\ muWriter = None
    /\ muReaders = {}
    /\ pc = [g \in Goroutines |-> "idle"]
    /\ loc = [g \in Goroutines |-> Idle]
    /\ setsDone = 0
    /\ sweeps = 0
    /\ lastSet = [k \in URLs |-> NoSet]
    /\ rows = [id \in RowIDs |->
                  IF id = StoredID THEN [exists |-> TRUE, photo |-> OldPhoto]
                  ELSE NoRow]

Tick ==
    /\ clock < MaxTicks * TickStep
    /\ clock' = clock + TickStep
    /\ UNCHANGED <<entries, geoCacheSetCount, muWriter, muReaders, pc, loc,
                   setsDone, sweeps, lastSet, rows>>

(* ------------------------------ get ------------------------------------ *)

GetRLock(g) ==
    /\ pc[g] = "get_rlock"
    /\ CanRLock
    /\ muReaders' = muReaders \cup {g}
    /\ pc' = [pc EXCEPT ![g] = "get_read"]
    /\ UNCHANGED <<clock, entries, geoCacheSetCount, muWriter, loc,
                   setsDone, sweeps, lastSet, rows>>

(* history: the keys that were stored and that a sweep has removed *)
Swept == {k \in URLs : lastSet[k].set /\ ~entries[k].ok}

GetRead(g) ==
    /\ pc[g] = "get_read"
    /\ loc' = [loc EXCEPT ![g].e = entries[loc[g].key],
                          ![g].seen = lastSet[loc[g].key],
                          ![g].gone = Swept]
    /\ pc' = [pc EXCEPT ![g] = "get_runlock"]
    /\ UNCHANGED <<clock, entries, geoCacheSetCount, muWriter, muReaders,
                   setsDone, sweeps, lastSet, rows>>

GetRUnlock(g) ==
    /\ pc[g] = "get_runlock"
    /\ muReaders' = muReaders \ {g}
    /\ pc' = [pc EXCEPT ![g] = "get_check"]
    /\ UNCHANGED <<clock, entries, geoCacheSetCount, muWriter, loc,
                   setsDone, sweeps, lastSet, rows>>

GetCheckEvicting(g) ==
    /\ pc[g] = "get_check"
    /\ LET found == ~(~loc[g].e.ok \/ After(clock, loc[g].e.expiresAt))
       IN /\ loc' = [loc EXCEPT ![g].tnow = clock,
                                ![g].rok = found,
                                ![g].rbody = IF found THEN loc[g].e.body ELSE Nil]
          /\ entries' = IF loc[g].e.ok /\ ~found
                        THEN [entries EXCEPT ![loc[g].key] = Absent]
                        ELSE entries
    /\ pc' = [pc EXCEPT ![g] = "get_ret"]
    /\ UNCHANGED <<clock, geoCacheSetCount, muWriter, muReaders,
                   setsDone, sweeps, lastSet, rows>>

GetFoundInverted(e, t) == e.ok /\ After(t, e.expiresAt)

GetFound(e, t) == ~(~e.ok \/ After(t, e.expiresAt))

GetCheck(g) ==
    /\ pc[g] = "get_check"
    /\ LET found == GetFound(loc[g].e, clock)
       IN loc' = [loc EXCEPT ![g].tnow = clock,
                             ![g].rok = found,
                             ![g].rbody = IF found THEN loc[g].e.body ELSE Nil]
    /\ pc' = [pc EXCEPT ![g] = "get_ret"]
    /\ UNCHANGED <<clock, entries, geoCacheSetCount, muWriter, muReaders,
                   setsDone, sweeps, lastSet, rows>>

(* ------------------------------ set ------------------------------------ *)

SetLockSkipped(g) ==
    /\ pc[g] = "set_lock"
    /\ pc' = [pc EXCEPT ![g] = "set_install"]
    /\ UNCHANGED <<clock, entries, geoCacheSetCount, muWriter, muReaders, loc,
                   setsDone, sweeps, lastSet, rows>>

SetLock(g) ==
    /\ pc[g] = "set_lock"
    /\ CanLock
    /\ muWriter' = g
    /\ pc' = [pc EXCEPT ![g] = "set_install"]
    /\ UNCHANGED <<clock, entries, geoCacheSetCount, muReaders, loc,
                   setsDone, sweeps, lastSet, rows>>

DoCleanupEarly(n) == (n + 1) % SweepEvery = 0

DoCleanup(n) == n % SweepEvery = 0

SetInstall(g) ==
    /\ pc[g] = "set_install"
    /\ entries' = [entries EXCEPT ![loc[g].key] =
                      [ok |-> TRUE, body |-> loc[g].body,
                       expiresAt |-> Add(clock, loc[g].ttl)]]
    /\ geoCacheSetCount' = geoCacheSetCount + 1
    /\ loc' = [loc EXCEPT ![g].doCleanup = DoCleanup(geoCacheSetCount'),
                          ![g].installed = TRUE]
    /\ lastSet' = [lastSet EXCEPT ![loc[g].key] =
                      [set |-> TRUE, body |-> loc[g].body, at |-> clock,
                       ttl |-> loc[g].ttl, status |-> loc[g].status]]
    /\ pc' = [pc EXCEPT ![g] = "set_unlock"]
    /\ UNCHANGED <<clock, muWriter, muReaders, setsDone, sweeps, rows>>

SetUnlockAfterSweep(g) ==
    /\ pc[g] = "set_unlock"
    /\ muWriter' = IF loc[g].doCleanup THEN muWriter ELSE None
    /\ pc' = [pc EXCEPT ![g] = IF loc[g].doCleanup THEN "cl_now" ELSE "set_ret"]
    /\ UNCHANGED <<clock, entries, geoCacheSetCount, muReaders, loc,
                   setsDone, sweeps, lastSet, rows>>

SetUnlock(g) ==
    /\ pc[g] = "set_unlock"
    /\ muWriter' = None
    /\ pc' = [pc EXCEPT ![g] = IF loc[g].doCleanup THEN "cl_now" ELSE "set_ret"]
    /\ UNCHANGED <<clock, entries, geoCacheSetCount, muReaders, loc,
                   setsDone, sweeps, lastSet, rows>>

(* ------------------------- cleanupExpired ------------------------------ *)

ClNow(g) ==
    /\ pc[g] = "cl_now"
    /\ loc' = [loc EXCEPT ![g].now = clock]
    /\ pc' = [pc EXCEPT ![g] = "cl_lock"]
    /\ UNCHANGED <<clock, entries, geoCacheSetCount, muWriter, muReaders,
                   setsDone, sweeps, lastSet, rows>>

ClLock(g) ==
    /\ pc[g] = "cl_lock"
    /\ CanLock
    /\ muWriter' = g
    /\ pc' = [pc EXCEPT ![g] = "cl_sweep"]
    /\ UNCHANGED <<clock, entries, geoCacheSetCount, muReaders, loc,
                   setsDone, sweeps, lastSet, rows>>

ExpiredSwapped(now, e) == e.ok /\ After(e.expiresAt, now)

ExpiredAtExpiry(now, e) == e.ok /\ now >= e.expiresAt

Expired(now, e) == e.ok /\ After(now, e.expiresAt)

ClSweep(g) ==
    /\ pc[g] = "cl_sweep"
    /\ entries' = [k \in URLs |->
                      IF Expired(loc[g].now, entries[k]) THEN Absent
                      ELSE entries[k]]
    /\ pc' = [pc EXCEPT ![g] = "cl_unlock"]
    /\ UNCHANGED <<clock, geoCacheSetCount, muWriter, muReaders, loc,
                   setsDone, sweeps, lastSet, rows>>

ClUnlockHeld(g) ==
    /\ pc[g] = "cl_unlock"
    /\ sweeps' = IF loc[g].op = "cleanup" THEN sweeps ELSE sweeps + 1
    /\ pc' = [pc EXCEPT ![g] = IF loc[g].op = "cleanup" THEN "cl_ret"
                               ELSE "set_ret"]
    /\ UNCHANGED <<clock, entries, geoCacheSetCount, muWriter, muReaders, loc,
                   setsDone, lastSet, rows>>

ClUnlock(g) ==
    /\ pc[g] = "cl_unlock"
    /\ muWriter' = None
    /\ sweeps' = IF loc[g].op = "cleanup" THEN sweeps ELSE sweeps + 1
    /\ pc' = [pc EXCEPT ![g] = IF loc[g].op = "cleanup" THEN "cl_ret"
                               ELSE "set_ret"]
    /\ UNCHANGED <<clock, entries, geoCacheSetCount, muReaders, loc,
                   setsDone, lastSet, rows>>

(* ---------------- callers of the cache type (unit level) --------------- *)

SetsBegun == geoCacheSetCount
             + Cardinality({g \in Goroutines : pc[g] \in {"set_lock", "set_install"}})

CallGet(g, k) ==
    /\ pc[g] = "idle"
    /\ loc' = [loc EXCEPT ![g] = [Idle EXCEPT !.op = "get", !.key = k]]
    /\ pc' = [pc EXCEPT ![g] = "get_rlock"]
    /\ UNCHANGED <<clock, entries, geoCacheSetCount, muWriter, muReaders,
                   setsDone, sweeps, lastSet, rows>>

CallSet(g, k, b, ttl, max) ==
    /\ pc[g] = "idle"
    /\ SetsBegun < max
    /\ loc' = [loc EXCEPT ![g] = [Idle EXCEPT !.op = "set", !.key = k,
                                              !.body = b, !.ttl = ttl]]
    /\ pc' = [pc EXCEPT ![g] = "set_lock"]
    /\ UNCHANGED <<clock, entries, geoCacheSetCount, muWriter, muReaders,
                   setsDone, sweeps, lastSet, rows>>

CallCleanup(g) ==
    /\ pc[g] = "idle"
    /\ loc' = [loc EXCEPT ![g] = [Idle EXCEPT !.op = "cleanup"]]
    /\ pc' = [pc EXCEPT ![g] = "cl_now"]
    /\ UNCHANGED <<clock, entries, geoCacheSetCount, muWriter, muReaders,
                   setsDone, sweeps, lastSet, rows>>

GetReturn(g) ==
    /\ pc[g] = "get_ret"
    /\ loc[g].op = "get"
    /\ pc' = [pc EXCEPT ![g] = "idle"]
    /\ loc' = [loc EXCEPT ![g] = Idle]
    /\ UNCHANGED <<clock, entries, geoCacheSetCount, muWriter, muReaders,
                   setsDone, sweeps, lastSet, rows>>

SetReturn(g) ==
    /\ pc[g] = "set_ret"
    /\ setsDone' = setsDone + 1
    /\ IF loc[g].op = "set"
       THEN /\ pc' = [pc EXCEPT ![g] = "idle"]
            /\ loc' = [loc EXCEPT ![g] = Idle]
       ELSE /\ pc' = [pc EXCEPT ![g] = "px_write"]
            /\ loc' = loc
    /\ UNCHANGED <<clock, entries, geoCacheSetCount, muWriter, muReaders,
                   sweeps, lastSet, rows>>

CleanupReturn(g) ==
    /\ pc[g] = "cl_ret"
    /\ pc' = [pc EXCEPT ![g] = "idle"]
    /\ loc' = [loc EXCEPT ![g] = Idle]
    /\ UNCHANGED <<clock, entries, geoCacheSetCount, muWriter, muReaders,
                   setsDone, sweeps, lastSet, rows>>

CacheStep(g) ==
    \/ GetRLock(g) \/ GetRead(g) \/ GetRUnlock(g) \/ GetCheck(g)
    \/ SetLock(g) \/ SetInstall(g) \/ SetUnlock(g)
    \/ ClNow(g) \/ ClLock(g) \/ ClSweep(g) \/ ClUnlock(g)

NextCache ==
    \/ Tick
    \/ \E g \in Goroutines :
          \/ \E k \in Keys : CallGet(g, k)
          \/ \E k \in Keys, b \in Bodies, ttl \in TTLs :
                CallSet(g, k, b, ttl, MaxCacheSets)
          \/ CallCleanup(g)
          \/ CacheStep(g)
          \/ GetReturn(g) \/ SetReturn(g) \/ CleanupReturn(g)

SpecCache == Init /\ [][NextCache]_vars

(* ------------- the cache under a fair scheduler ------------------------ *)

(* the lock does not depend on the key: one key is looked up and stored *)
LiveKeys == {"q?a=1&b=2"}

NextLive ==
    \/ Tick
    \/ \E g \in Goroutines :
          \/ \E k \in LiveKeys : CallGet(g, k)
          \/ \E k \in LiveKeys, b \in SweepBodies :
                CallSet(g, k, b, TickStep, MaxCacheSets)
          \/ CallCleanup(g)
          \/ CacheStep(g)
          \/ GetReturn(g) \/ SetReturn(g) \/ CleanupReturn(g)

(* a step of g that asks for the lock, and a step of g that does not wait *)
Acquire(g) == GetRLock(g) \/ SetLock(g) \/ ClLock(g)

Proceed(g) ==
    \/ GetRead(g) \/ GetRUnlock(g) \/ GetCheck(g)
    \/ SetInstall(g) \/ SetUnlock(g)
    \/ ClNow(g) \/ ClSweep(g) \/ ClUnlock(g)
    \/ GetReturn(g) \/ SetReturn(g) \/ CleanupReturn(g)

(* the Go scheduler runs every runnable goroutine, and sync.RWMutex hands  *)
(* the lock to a goroutine that waits for it: a waiting Lock keeps new     *)
(* readers out, and an Unlock lets the waiting readers in.  Nothing        *)
(* obliges a caller to start a call or the clock to advance.               *)
Fairness ==
    \A g \in Goroutines : WF_vars(Proceed(g)) /\ SF_vars(Acquire(g))

SpecLive == Init /\ [][NextLive]_vars /\ Fairness

(* --------------------------- nominatimProxy --------------------------- *)

ProxySetsBegun ==
    geoCacheSetCount
    + Cardinality({g \in Goroutines :
          /\ loc[g].op = "proxy"
          /\ pc[g] \in {"get_rlock", "get_read", "get_runlock", "get_check", "get_ret",
                         "px_newreq", "px_do", "px_read", "set_lock", "set_install"}})

CallProxy(g, u) ==
    /\ pc[g] = "idle"
    /\ ProxySetsBegun < MaxProxySets
    /\ loc' = [loc EXCEPT ![g] = [Idle EXCEPT !.op = "proxy", !.key = u]]
    /\ pc' = [pc EXCEPT ![g] = "get_rlock"]
    /\ UNCHANGED <<clock, entries, geoCacheSetCount, muWriter, muReaders,
                   setsDone, sweeps, lastSet, rows>>

(* if body, ok := geoCache_.get(nominatimURL); ok { w.Write(body); return } *)
ProxyAfterGet(g) ==
    /\ pc[g] = "get_ret"
    /\ loc[g].op = "proxy"
    /\ IF loc[g].rok
       THEN /\ loc' = [loc EXCEPT ![g].outcome = "hit",
                                   ![g].wstatus = StatusOK,
                                   ![g].wbody = loc[g].rbody]
            /\ pc' = [pc EXCEPT ![g] = "px_done"]
       ELSE /\ loc' = loc
            /\ pc' = [pc EXCEPT ![g] = "px_newreq"]
    /\ UNCHANGED <<clock, entries, geoCacheSetCount, muWriter, muReaders,
                   setsDone, sweeps, lastSet, rows>>

(* http.NewRequestWithContext fails on a URL that does not parse *)
ProxyNewRequest(g) ==
    /\ pc[g] = "px_newreq"
    /\ IF loc[g].key \in Malformed
       THEN /\ loc' = [loc EXCEPT ![g].outcome = "newreq_err",
                                   ![g].wstatus = StatusInternalServerError,
                                   ![g].wbody = "Erreur requete geo"]
            /\ pc' = [pc EXCEPT ![g] = "px_done"]
       ELSE /\ loc' = loc
            /\ pc' = [pc EXCEPT ![g] = "px_do"]
    /\ UNCHANGED <<clock, entries, geoCacheSetCount, muWriter, muReaders,
                   setsDone, sweeps, lastSet, rows>>

ProxyDoRetry(g, res, st) ==
    /\ pc[g] = "px_do"
    /\ IF res = "ok"
       THEN /\ loc' = [loc EXCEPT ![g].gets = @ + 1, ![g].status = st]
            /\ pc' = [pc EXCEPT ![g] = "px_read"]
       ELSE /\ loc' = [loc EXCEPT ![g].gets = @ + 1]
            /\ pc' = pc
    /\ UNCHANGED <<clock, entries, geoCacheSetCount, muWriter, muReaders,
                   setsDone, sweeps, lastSet, rows>>

(* geoHTTPClient.Do: the GET goes out; the status line of the response     *)
(* comes back, or an error: the context of the request was cancelled, the  *)
(* client's timeout ran out, or the connection failed                      *)
ProxyDo(g, res, st) ==
    /\ pc[g] = "px_do"
    /\ IF res = "ok"
       THEN /\ loc' = [loc EXCEPT ![g].gets = @ + 1, ![g].status = st]
            /\ pc' = [pc EXCEPT ![g] = "px_read"]
       ELSE /\ loc' = [loc EXCEPT ![g].gets = @ + 1,
                                   ![g].outcome = "do_err",
                                   ![g].cause = res,
                                   ![g].wstatus = StatusBadGateway,
                                   ![g].wbody = "Service geolocalisation indisponible"]
            /\ pc' = [pc EXCEPT ![g] = "px_done"]
    /\ UNCHANGED <<clock, entries, geoCacheSetCount, muWriter, muReaders,
                   setsDone, sweeps, lastSet, rows>>

CacheableAnyStatus(st, body) == body # Nil

(* Cache seulement si OK et non vide *)
Cacheable(st, body) == st = StatusOK /\ body # Nil

(* io.ReadAll(resp.Body), then the decision to store *)
ProxyReadAll(g, res, b) ==
    /\ pc[g] = "px_read"
    /\ IF res = "ok"
       THEN /\ loc' = [loc EXCEPT ![g].outcome = "response",
                                   ![g].body = b,
                                   ![g].ttl = IF Cacheable(loc[g].status, b)
                                              THEN GeoTTL ELSE 0]
            /\ pc' = [pc EXCEPT ![g] = IF Cacheable(loc[g].status, b)
                                       THEN "set_lock" ELSE "px_write"]
       ELSE /\ loc' = [loc EXCEPT ![g].outcome = "read_err",
                                   ![g].cause = res,
                                   ![g].wstatus = StatusInternalServerError,
                                   ![g].wbody = "Erreur lecture reponse geo"]
            /\ pc' = [pc EXCEPT ![g] = "px_done"]
    /\ UNCHANGED <<clock, entries, geoCacheSetCount, muWriter, muReaders,
                   setsDone, sweeps, lastSet, rows>>

ProxyWriteOK(g) ==
    /\ pc[g] = "px_write"
    /\ loc' = [loc EXCEPT ![g].wstatus = StatusOK,
                          ![g].wbody = loc[g].body]
    /\ pc' = [pc EXCEPT ![g] = "px_done"]
    /\ UNCHANGED <<clock, entries, geoCacheSetCount, muWriter, muReaders,
                   setsDone, sweeps, lastSet, rows>>

(* w.WriteHeader(resp.StatusCode); w.Write(body) *)
ProxyWrite(g) ==
    /\ pc[g] = "px_write"
    /\ loc' = [loc EXCEPT ![g].wstatus = loc[g].status,
                          ![g].wbody = loc[g].body]
    /\ pc' = [pc EXCEPT ![g] = "px_done"]
    /\ UNCHANGED <<clock, entries, geoCacheSetCount, muWriter, muReaders,
                   setsDone, sweeps, lastSet, rows>>

ProxyReturn(g) ==
    /\ pc[g] = "px_done"
    /\ pc' = [pc EXCEPT ![g] = "idle"]
    /\ loc' = [loc EXCEPT ![g] = Idle]
    /\ UNCHANGED <<clock, entries, geoCacheSetCount, muWriter, muReaders,
                   setsDone, sweeps, lastSet, rows>>

(* one step of a nominatimProxy call, the upstream answering from bodies  *)
(* and the network calls ending as results says                            *)
ProxyStep(g, bodies, results) ==
    \/ GetRLock(g) \/ GetRead(g) \/ GetRUnlock(g) \/ GetCheck(g)
    \/ ProxyAfterGet(g)
    \/ ProxyNewRequest(g)
    \/ \E res \in results, st \in Statuses : ProxyDo(g, res, st)
    \/ \E res \in results, b \in bodies : ProxyReadAll(g, res, b)
    \/ SetLock(g) \/ SetInstall(g) \/ SetUnlock(g) \/ SetReturn(g)
    \/ ProxyWrite(g)
    \/ ProxyReturn(g)

(* ---------------- the geo handlers running concurrently ---------------- *)

Next ==
    \/ Tick
    \/ \E g \in Goroutines :
          \/ \E u \in URLs : CallProxy(g, u)
          \/ ProxyStep(g, Bodies \cup {Nil}, BasicResults)

Spec == Init /\ [][Next]_vars

(* ------------------------ processAndUploadImage ------------------------ *)

(* strings.TrimRight(s, cut) for a one-character cut set *)
RECURSIVE TrimRight(_, _)
TrimRight(s, cut) ==
    IF Len(s) > 0 /\ SubSeq(s, Len(s), Len(s)) = cut
    THEN TrimRight(SubSeq(s, 1, Len(s) - 1), cut)
    ELSE s

RECURSIVE TrimLeft(_, _)
TrimLeft(s, cut) ==
    IF Len(s) > 0 /\ SubSeq(s, 1, 1) = cut
    THEN TrimLeft(SubSeq(s, 2, Len(s)), cut)
    ELSE s

(* strings.TrimSpace, the white space being the blank *)
TrimSpace(s) == TrimLeft(TrimRight(s, " "), " ")

(* url.Parse inside http.NewRequestWithContext rejects a "%" that does not *)
(* start an escape; the URLs of the model carry no valid escape            *)
RECURSIVE Parses(_)
Parses(u) ==
    IF Len(u) = 0 THEN TRUE
    ELSE SubSeq(u, 1, 1) # "%" /\ Parses(SubSeq(u, 2, Len(u)))

EnvURLs == {Nil, "/", "https://s/"}     \* SUPABASE_URL as the environment has it
EnvKeys == {Nil, " ", " jwt "}          \* SUPABASE_SERVICE_ROLE_KEY likewise
GoodEnvURL == "https://s/"
GoodEnvKey == " jwt "

(* the multipart header: nil, or with the Size it declares *)
Headers == {[has |-> FALSE, size |-> MaxUploadSize + 1],
            [has |-> TRUE, size |-> MaxUploadSize],
            [has |-> TRUE, size |-> MaxUploadSize + 1]}
GoodHeader == [has |-> TRUE, size |-> MaxUploadSize]

(* the bounds of the decoded image *)
Dims == {[w |-> MaxImageWidth, h |-> 800], [w |-> MaxImageWidth + 1, h |-> 800],
         [w |-> 2 * MaxImageWidth, h |-> 1001], [w |-> 3000, h |-> 1],
         [w |-> MaxImageWidth, h |-> JpegMaxDim]}
GoodDim == [w |-> MaxImageWidth + 1, h |-> 800]

(* the tasting identifier: UpdateTasting passes the form value as it is *)
TastingIDs == {"7", "7-57600", "%"}
GoodID == "7"

ImageInput(u, k, hd, dec, d, id) ==
    [envURL |-> u, envKey |-> k, hasHeader |-> hd.has, size |-> hd.size,
     decodable |-> dec, width |-> d.w, height |-> d.h, id |-> id]

(* what a call is given: the two environment values, the multipart header, *)
(* whether image.Decode accepts the bytes and with what bounds, and the    *)
(* tasting identifier                                                      *)
ImageInputs ==
    {ImageInput(u, k, hd, TRUE, GoodDim, GoodID) :
        u \in EnvURLs, k \in EnvKeys, hd \in {GoodHeader, [has |-> TRUE, size |-> MaxUploadSize + 1]}}
    \cup {ImageInput(GoodEnvURL, GoodEnvKey, hd, dec, GoodDim, GoodID) :
        hd \in Headers, dec \in BOOLEAN}
    \cup {ImageInput(GoodEnvURL, GoodEnvKey, GoodHeader, TRUE, d, GoodID) : d \in Dims}
    \cup {ImageInput(GoodEnvURL, GoodEnvKey, GoodHeader, TRUE, GoodDim, id) :
        id \in TastingIDs}

(* the inputs of the uploads that run next to geo requests *)
IngestInputs ==
    {ImageInput(u, GoodEnvKey, hd, dec, GoodDim, GoodID) :
        u \in {Nil, GoodEnvURL},
        hd \in {GoodHeader, [has |-> TRUE, size |-> MaxUploadSize + 1]},
        dec \in BOOLEAN}

CallImage(g, in) ==
    /\ pc[g] = "idle"
    /\ loc' = [loc EXCEPT ![g] = [Idle EXCEPT !.op = "image", !.img = in,
                                              !.prevErr = loc[g].prevErr]]
    /\ pc' = [pc EXCEPT ![g] = "img_prepare"]
    /\ UNCHANGED <<clock, entries, geoCacheSetCount, muWriter, muReaders,
                   setsDone, sweeps, lastSet, rows>>

ConfigMissingBoth(in) ==
    TrimRight(in.envURL, "/") = Nil /\ TrimSpace(in.envKey) = Nil

(* if supabaseURL == "" || jwtKey == "" *)
ConfigMissing(in) ==
    TrimRight(in.envURL, "/") = Nil \/ TrimSpace(in.envKey) = Nil

TooLargeDoubled(in) == in.hasHeader /\ in.size > 2 * MaxUploadSize

(* if header != nil && header.Size > MaxUploadSize *)
TooLarge(in) == in.hasHeader /\ in.size > MaxUploadSize

NeedsResizeAtWidth(w) == w >= MaxImageWidth

(* if b.Dx() > MaxImageWidth *)
NeedsResize(w) == w > MaxImageWidth

(* resize.Resize(MaxImageWidth, 0, img, resize.Lanczos3): the height is    *)
(* uint(0.7 + h / (w / MaxImageWidth))                                     *)
ResizedHeight(w, h) == (7 * w + 10 * MaxImageWidth * h) \div (10 * w)

EncodableWidthOnly(w, h) == w < JpegMaxDim

(* jpeg.Encode refuses an image with a side of 1<<16 pixels or more *)
Encodable(w, h) == w < JpegMaxDim /\ h < JpegMaxDim

FileNameNoID(id, t) == "tasting-" \o ToString(t * 3600) \o ".jpg"

(* fmt.Sprintf("tasting-%s-%d.jpg", tastingID, time.Now().Unix()) *)
FileName(id, t) == "tasting-" \o id \o "-" \o ToString(t * 3600) \o ".jpg"

UploadPath == "/storage/v1/object/photos/"
PublicPath == "/storage/v1/object/public/photos/"

(* the checks, the decode, the resize and the encode, up to the request *)
ImgPrepare(g) ==
    /\ pc[g] = "img_prepare"
    /\ LET in == loc[g].img
           supabaseURL == TrimRight(in.envURL, "/")
           jwtKey == TrimSpace(in.envKey)
           resized == NeedsResize(in.width)
           ow == IF resized THEN MaxImageWidth ELSE in.width
           oh == IF resized THEN ResizedHeight(in.width, in.height) ELSE in.height
           fileName == FileName(in.id, clock)
           uploadURL == supabaseURL \o UploadPath \o fileName
           cfg == [loc[g] EXCEPT !.supabaseURL = supabaseURL, !.jwtKey = jwtKey]
           dec == [cfg EXCEPT !.decoded = TRUE]
           enc == [dec EXCEPT !.resized = resized, !.ow = ow, !.oh = oh]
       IN IF ConfigMissing(in)
          THEN /\ loc' = [loc EXCEPT ![g] = [cfg EXCEPT !.err = "config"]]
               /\ pc' = [pc EXCEPT ![g] = "img_done"]
          ELSE IF TooLarge(in)
          THEN /\ loc' = [loc EXCEPT ![g] = [cfg EXCEPT !.err = "too_large"]]
               /\ pc' = [pc EXCEPT ![g] = "img_done"]
          ELSE IF ~in.decodable
          THEN /\ loc' = [loc EXCEPT ![g] = [dec EXCEPT !.err = "decode"]]
               /\ pc' = [pc EXCEPT ![g] = "img_done"]
          ELSE IF ~Encodable(ow, oh)
          THEN /\ loc' = [loc EXCEPT ![g] = [enc EXCEPT !.err = "encode"]]
               /\ pc' = [pc EXCEPT ![g] = "img_done"]
          ELSE IF ~Parses(uploadURL)
          THEN /\ loc' = [loc EXCEPT ![g] = [enc EXCEPT !.encoded = TRUE,
                                                        !.fileName = fileName,
                                                        !.tname = clock,
                                                        !.err = "request"]]
               /\ pc' = [pc EXCEPT ![g] = "img_done"]
          ELSE /\ loc' = [loc EXCEPT ![g] = [enc EXCEPT !.encoded = TRUE,
                                                        !.fileName = fileName,
                                                        !.tname = clock,
                                                        !.upurl = uploadURL]]
               /\ pc' = [pc EXCEPT ![g] = "img_post"]
    /\ UNCHANGED <<clock, entries, geoCacheSetCount, muWriter, muReaders,
                   setsDone, sweeps, lastSet, rows>>

(* the statuses the storage endpoint answers with *)
UploadStatuses == {StatusOK, 299, 300, StatusNotFound}

RejectedFrom400(st) == st < 200 \/ st >= 400

(* if resp.StatusCode < 200 || resp.StatusCode >= 300 *)
Rejected(st) == st < 200 \/ st >= 300

(* uploadHTTPClient.Do, the read of the answer and the status test; the    *)
(* error of io.ReadAll is dropped, so a read that fails leaves the bytes   *)
(* read so far (none, in the model) as the body                            *)
ImgPost(g, res, st, b, rd) ==
    /\ pc[g] = "img_post"
    /\ IF res # "ok"
       THEN loc' = [loc EXCEPT ![g].posts = @ + 1, ![g].err = "transport",
                               ![g].cause = res]
       ELSE IF Rejected(st)
       THEN loc' = [loc EXCEPT ![g].posts = @ + 1, ![g].err = "http",
                               ![g].status = st, ![g].sent = b,
                               ![g].readOK = rd,
                               ![g].body = IF rd THEN b ELSE Nil]
       ELSE loc' = [loc EXCEPT ![g].posts = @ + 1, ![g].status = st,
                      ![g].url = loc[g].supabaseURL \o PublicPath
                                    \o loc[g].fileName]
    /\ pc' = [pc EXCEPT ![g] = "img_done"]
    /\ UNCHANGED <<clock, entries, geoCacheSetCount, muWriter, muReaders,
                   setsDone, sweeps, lastSet, rows>>

ImgReturn(g) ==
    /\ pc[g] = "img_done"
    /\ loc[g].op = "image"
    /\ pc' = [pc EXCEPT ![g] = "idle"]
    /\ loc' = [loc EXCEPT ![g] = [Idle EXCEPT !.prevErr =
                      IF loc[g].err = "config" THEN "config" ELSE "none"]]
    /\ UNCHANGED <<clock, entries, geoCacheSetCount, muWriter, muReaders,
                   setsDone, sweeps, lastSet, rows>>

(* what the storage endpoint and the network do to an upload: how the     *)
(* call ends, the status and body answered, whether the body is read to   *)
(* its end                                                                 *)
AllAnswers ==
    [res : NetResults, st : UploadStatuses, b : IngestBodies, rd : BOOLEAN]
PlainAnswers ==
    [res : BasicResults, st : {StatusOK, StatusNotFound}, b : {"b1"}, rd : {TRUE}]

(* one step of a processAndUploadImage call, answered from answers *)
ImageStep(g, answers) ==
    \/ ImgPrepare(g)
    \/ \E a \in answers : ImgPost(g, a.res, a.st, a.b, a.rd)
    \/ ImgReturn(g)

(* ------------- uploads called directly, two at a time ------------------ *)

NextImage ==
    \/ Tick
    \/ \E g \in Goroutines :
          \/ \E in \in ImageInputs : CallImage(g, in)
          \/ ImageStep(g, PlainAnswers)

SpecImage == Init /\ [][NextImage]_vars

(* ---------- uploads running next to geo requests for one URL ----------- *)

NextIngest ==
    \/ Tick
    \/ \E g \in Goroutines :
          \/ \E in \in IngestInputs : CallImage(g, in)
          \/ ImageStep(g, AllAnswers)
          \/ \E u \in IngestURLs : CallProxy(g, u)
          \/ ProxyStep(g, IngestBodies, NetResults)

SpecIngest == Init /\ [][NextIngest]_vars

(* the cache as the program drives it: cleanupExpired runs only from set *)
NextSweep ==
    \/ Tick
    \/ \E g \in Goroutines :
          \/ \E k \in Keys, b \in SweepBodies, ttl \in TTLs :
                CallSet(g, k, b, ttl, MaxSweepSets)
          \/ SetLock(g) \/ SetInstall(g) \/ SetUnlock(g)
          \/ ClNow(g) \/ ClLock(g) \/ ClSweep(g) \/ ClUnlock(g)
          \/ SetReturn(g)

SpecSweep == Init /\ [][NextSweep]_vars

(* ------------- geo requests whose times fall on an expiry -------------- *)

(* the clock advances by a third of the TTL, so that a request can arrive  *)
(* at the very instant the entry an earlier request stored expires         *)
FineStep == GeoTTL \div 3

TickFine ==
    /\ clock < MaxTicks * TickStep
    /\ clock' = clock + FineStep
    /\ UNCHANGED <<entries, geoCacheSetCount, muWriter, muReaders, pc, loc,
                   setsDone, sweeps, lastSet, rows>>

NextRefetch ==
    \/ TickFine
    \/ \E g \in Goroutines :
          \/ \E u \in IngestURLs : CallProxy(g, u)
          \/ ProxyStep(g, Bodies \cup {Nil}, BasicResults)

SpecRefetch == Init /\ [][NextRefetch]_vars

(* ---------------------- GeoSearch and GeoReverse ----------------------- *)

(* Query values are sequences of code points; a Go string is their UTF-8   *)
(* encoding, and len() counts its bytes.                                   *)

(* unicode.IsSpace, for the code points up to U+00FF *)
IsSpace(c) == c \in {9, 10, 11, 12, 13, 32, 133, 160}

RECURSIVE TrimSpaceLeft(_)
TrimSpaceLeft(s) ==
    IF s # <<>> /\ IsSpace(Head(s)) THEN TrimSpaceLeft(Tail(s)) ELSE s

RECURSIVE TrimSpaceRight(_)
TrimSpaceRight(s) ==
    IF s # <<>> /\ IsSpace(s[Len(s)])
    THEN TrimSpaceRight(SubSeq(s, 1, Len(s) - 1))
    ELSE s

(* strings.TrimSpace on code points *)
TrimSpaceRunes(s) == TrimSpaceLeft(TrimSpaceRight(s))

(* the UTF-8 encoding of a code point *)
Utf8(c) ==
    IF c < 128 THEN <<c>>
    ELSE IF c < 2048 THEN <<192 + (c \div 64), 128 + (c % 64)>>
    ELSE IF c < 65536
         THEN <<224 + (c \div 4096), 128 + ((c \div 64) % 64), 128 + (c % 64)>>
    ELSE <<240 + (c \div 262144), 128 + ((c \div 4096) % 64),
           128 + ((c \div 64) % 64), 128 + (c % 64)>>

(* len(s) of the Go string *)
RECURSIVE ByteLen(_)
ByteLen(s) == IF s = <<>> THEN 0 ELSE Len(Utf8(Head(s))) + ByteLen(Tail(s))

(* url.QueryEscape: letters, digits and - . _ ~ stay, the blank becomes +, *)
(* every other byte becomes %XX                                            *)
Unreserved(c) ==
    \/ c \in 48..57 \/ c \in 65..90 \/ c \in 97..122
    \/ c \in {45, 46, 95, 126}

Chr(c) ==
    IF c \in 48..57 THEN SubSeq("0123456789", c - 47, c - 47)
    ELSE IF c \in 65..90
         THEN SubSeq("ABCDEFGHIJKLMNOPQRSTUVWXYZ", c - 64, c - 64)
    ELSE IF c \in 97..122
         THEN SubSeq("abcdefghijklmnopqrstuvwxyz", c - 96, c - 96)
    ELSE IF c = 45 THEN "-" ELSE IF c = 46 THEN "." ELSE IF c = 95 THEN "_"
    ELSE "~"

HexDigit(n) == SubSeq("0123456789ABCDEF", n + 1, n + 1)

Percent(b) == "%" \o HexDigit(b \div 16) \o HexDigit(b % 16)

RECURSIVE PercentAll(_)
PercentAll(bs) ==
    IF bs = <<>> THEN "" ELSE Percent(Head(bs)) \o PercentAll(Tail(bs))

EscapeRune(c) ==
    IF Unreserved(c) THEN Chr(c)
    ELSE IF c = 32 THEN "+"
    ELSE PercentAll(Utf8(c))

RECURSIVE QueryEscape(_)
QueryEscape(s) ==
    IF s = <<>> THEN "" ELSE EscapeRune(Head(s)) \o QueryEscape(Tail(s))

SearchBase == "https://nominatim.openstreetmap.org/search"
ReverseBase == "https://nominatim.openstreetmap.org/reverse"

(* if em := nominatimEmailParam(); em != "" { v.Set("email", em) } *)
EmailParam(em) == IF em # <<>> THEN "&email=" \o QueryEscape(em) ELSE ""

(* base + "?" + v.Encode(): Encode writes the parameters sorted by key *)
SearchURL(q, em) ==
    SearchBase \o "?accept-language=fr&addressdetails=1" \o EmailParam(em)
        \o "&format=json&limit=6&q=" \o QueryEscape(q)

ReverseURL(lat, lon, em) ==
    ReverseBase \o "?accept-language=fr&addressdetails=1" \o EmailParam(em)
        \o "&format=json&lat=" \o QueryEscape(lat)
        \o "&lon=" \o QueryEscape(lon)

QueryTooShortRunes(q) == Len(q) < 2

(* if len(q) < 2 *)
QueryTooShort(q) == ByteLen(q) < 2

(* if lat == "" || lon == "" *)
CoordMissing(lat, lon) == lat = <<>> \/ lon = <<>>

(* if len(lat) > 20 || len(lon) > 20 *)
CoordTooLong(lat, lon) == ByteLen(lat) > 20 \/ ByteLen(lon) > 20

(* the requests: "", " ", "P", NBSP "P" " ", "Pa", " Pa" TAB and the one   *)
(* character of two bytes U+00E9; coordinates of 1, 20 and 21 digits and   *)
(* one of 11 characters in 22 bytes; NOMINATIM_EMAIL unset, blank or a@b   *)
Repeat(c, n) == [i \in 1..n |-> c]
Queries ==
    {<<>>, <<32>>, <<80>>, <<160, 80, 32>>, <<80, 97>>, <<32, 80, 97, 9>>,
     <<233>>}
Lats == {<<>>, <<32>>, <<32, 49, 32>>, Repeat(49, 20), Repeat(49, 21), Repeat(233, 11)}
Lons == {<<>>, <<50>>, Repeat(50, 21)}
Emails == {<<>>, <<32>>, <<97, 64, 98>>}

GoodQuery == <<80, 97>>
GoodLat == <<32, 49, 32>>
GoodLon == <<50>>

(* every value of one input next to good values of the others *)
GeoForm(q, lat, lon, em) == [q |-> q, lat |-> lat, lon |-> lon, email |-> em]
SearchForms ==
    {GeoForm(q, <<>>, <<>>, <<>>) : q \in Queries}
    \cup {GeoForm(GoodQuery, <<>>, <<>>, em) : em \in Emails}
ReverseForms ==
    {GeoForm(<<>>, lat, GoodLon, <<>>) : lat \in Lats}
    \cup {GeoForm(<<>>, GoodLat, lon, <<>>) : lon \in Lons}
    \cup {GeoForm(<<>>, GoodLat, GoodLon, em) : em \in Emails}

(* the URLs the two handlers pass to nominatimProxy *)
GeoURLs ==
    {SearchURL(TrimSpaceRunes(f.q), TrimSpaceRunes(f.email)) :
        f \in {f \in SearchForms : ~QueryTooShort(TrimSpaceRunes(f.q))}}
    \cup
    {ReverseURL(TrimSpaceRunes(f.lat), TrimSpaceRunes(f.lon),
                TrimSpaceRunes(f.email)) :
        f \in {f \in ReverseForms :
                  /\ ~CoordMissing(TrimSpaceRunes(f.lat), TrimSpaceRunes(f.lon))
                  /\ ~CoordTooLong(TrimSpaceRunes(f.lat), TrimSpaceRunes(f.lon))}}

(* the cache is empty at start; its keys are the URLs of the two handlers *)
InitGeo ==
    /\ clock = 0
    /\ entries = [k \in URLs \cup GeoURLs |-> Absent]
    /\ geoCacheSetCount = 0
    /\ muWriter = None
    /\ muReaders = {}
    /\ pc = [g \in Goroutines |-> "idle"]
    /\ loc = [g \in Goroutines |-> Idle]
    /\ setsDone = 0
    /\ sweeps = 0
    /\ lastSet = [k \in URLs \cup GeoURLs |-> NoSet]
    /\ rows = [id \in RowIDs |->
                  IF id = StoredID THEN [exists |-> TRUE, photo |-> OldPhoto]
                  ELSE NoRow]

GeoBegun ==
    ProxySetsBegun
    + Cardinality({g \in Goroutines : pc[g] \in {"gs_guard", "gr_guard"}})

CallGeoSearch(g, f) ==
    /\ pc[g] = "idle"
    /\ GeoBegun < MaxProxySets
    /\ loc' = [loc EXCEPT ![g] = [Idle EXCEPT !.op = "search", !.form = f,
                                              !.handler = "search"]]
    /\ pc' = [pc EXCEPT ![g] = "gs_guard"]
    /\ UNCHANGED <<clock, entries, geoCacheSetCount, muWriter, muReaders,
                   setsDone, sweeps, lastSet, rows>>

CallGeoReverse(g, f) ==
    /\ pc[g] = "idle"
    /\ GeoBegun < MaxProxySets
    /\ loc' = [loc EXCEPT ![g] = [Idle EXCEPT !.op = "reverse", !.form = f,
                                              !.handler = "reverse"]]
    /\ pc' = [pc EXCEPT ![g] = "gr_guard"]
    /\ UNCHANGED <<clock, entries, geoCacheSetCount, muWriter, muReaders,
                   setsDone, sweeps, lastSet, rows>>

(* the handler calls nominatimProxy(u, w, r) *)
EnterProxy(l, u) == [l EXCEPT !.op = "proxy", !.key = u, !.calls = @ + 1]

GeoSearch(g) ==
    /\ pc[g] = "gs_guard"
    /\ LET q == TrimSpaceRunes(loc[g].form.q)
           em == TrimSpaceRunes(loc[g].form.email)
       IN IF QueryTooShort(q)
          THEN /\ loc' = [loc EXCEPT ![g].outcome = "empty",
                                      ![g].wstatus = StatusOK,
                                      ![g].wbody = "[]"]
               /\ pc' = [pc EXCEPT ![g] = "px_done"]
          ELSE /\ loc' = [loc EXCEPT ![g] = EnterProxy(loc[g], SearchURL(q, em))]
               /\ pc' = [pc EXCEPT ![g] = "get_rlock"]
    /\ UNCHANGED <<clock, entries, geoCacheSetCount, muWriter, muReaders,
                   setsDone, sweeps, lastSet, rows>>

GeoReverse(g) ==
    /\ pc[g] = "gr_guard"
    /\ LET lat == TrimSpaceRunes(loc[g].form.lat)
           lon == TrimSpaceRunes(loc[g].form.lon)
           em == TrimSpaceRunes(loc[g].form.email)
       IN IF CoordMissing(lat, lon)
          THEN /\ loc' = [loc EXCEPT ![g].outcome = "bad_request",
                                      ![g].wstatus = StatusBadRequest,
                                      ![g].wbody = "lat et lon requis"]
               /\ pc' = [pc EXCEPT ![g] = "px_done"]
          ELSE IF CoordTooLong(lat, lon)
          THEN /\ loc' = [loc EXCEPT ![g].outcome = "bad_request",
                                      ![g].wstatus = StatusBadRequest,
                                      ![g].wbody = "lat/lon invalides"]
               /\ pc' = [pc EXCEPT ![g] = "px_done"]
          ELSE /\ loc' = [loc EXCEPT ![g] =
                             EnterProxy(loc[g], ReverseURL(lat, lon, em))]
               /\ pc' = [pc EXCEPT ![g] = "get_rlock"]
    /\ UNCHANGED <<clock, entries, geoCacheSetCount, muWriter, muReaders,
                   setsDone, sweeps, lastSet, rows>>

(* the guards do not read the clock: the requests are served at one time, *)
(* within the TTL of what they store                                      *)
NextGeo ==
    \E g \in Goroutines :
        \/ \E f \in SearchForms : CallGeoSearch(g, f)
        \/ \E f \in ReverseForms : CallGeoReverse(g, f)
        \/ GeoSearch(g)
        \/ GeoReverse(g)
        \/ ProxyStep(g, SweepBodies, BasicResults)

SpecGeo == InitGeo /\ [][NextGeo]_vars

(* -------------------- AddTasting and UpdateTasting --------------------- *)

StatusFound == 302

(* the photos the forms carry: r.FormFile gives a header, and a form that  *)
(* ParseMultipartForm accepted holds no file above MaxUploadSize           *)
TastingPhotos ==
    {ImageInput(u, GoodEnvKey, GoodHeader, dec, GoodDim, GoodID) :
        u \in {Nil, GoodEnvURL}, dec \in BOOLEAN}

Form(m, p, n, id, hp, ph) ==
    [method |-> m, parses |-> p, productName |-> n, id |-> id,
     hasPhoto |-> hp, photo |-> ph]

NoPhoto == ImageInput(Nil, Nil, GoodHeader, FALSE, GoodDim, Nil)

(* the requests: the ones a handler turns away at once, one without a      *)
(* photo, and one per photo                                                *)
Forms(ids) ==
    {Form("GET", TRUE, "x", StoredID, FALSE, NoPhoto),
     Form("POST", FALSE, "x", StoredID, FALSE, NoPhoto),
     Form("POST", TRUE, Nil, Nil, FALSE, NoPhoto)}
    \cup {Form("POST", TRUE, "x", id, FALSE, NoPhoto) : id \in ids}
    \cup {Form("POST", TRUE, "x", id, TRUE, ph) : id \in ids, ph \in TastingPhotos}

(* http.Redirect(w, r, "/", http.StatusFound) *)
Redirect(l) == [l EXCEPT !.wstatus = StatusFound, !.wbody = "/"]

(* http.Error(w, ..., code) *)
HttpError(l, code) == [l EXCEPT !.wstatus = code, !.wbody = "error"]

(* rows a running AddTasting is still to insert *)
AddsBegun ==
    Cardinality({id \in RowIDs : rows[id].exists})
    + Cardinality({g \in Goroutines : pc[g] \in {"add_begin", "add_insert"}})

CallAdd(g, f) ==
    /\ pc[g] = "idle"
    /\ AddsBegun < Cardinality(RowIDs)
    /\ loc' = [loc EXCEPT ![g] = [Idle EXCEPT !.op = "add", !.form = f]]
    /\ pc' = [pc EXCEPT ![g] = "add_begin"]
    /\ UNCHANGED <<clock, entries, geoCacheSetCount, muWriter, muReaders,
                   setsDone, sweeps, lastSet, rows>>

(* AddTasting up to the transaction: the method, the form, the name *)
AddBegin(g) ==
    /\ pc[g] = "add_begin"
    /\ LET f == loc[g].form
       IN IF f.method # "POST"
          THEN /\ loc' = [loc EXCEPT ![g] = Redirect(loc[g])]
               /\ pc' = [pc EXCEPT ![g] = "h_done"]
          ELSE IF ~f.parses
          THEN /\ loc' = [loc EXCEPT ![g] = HttpError(loc[g], StatusBadRequest)]
               /\ pc' = [pc EXCEPT ![g] = "h_done"]
          ELSE IF f.productName = Nil
          THEN /\ loc' = [loc EXCEPT ![g] = Redirect(loc[g])]
               /\ pc' = [pc EXCEPT ![g] = "h_done"]
          ELSE /\ loc' = loc
               /\ pc' = [pc EXCEPT ![g] = "add_insert"]
    /\ UNCHANGED <<clock, entries, geoCacheSetCount, muWriter, muReaders,
                   setsDone, sweeps, lastSet, rows>>

(* the transaction: INSERT ... photo_url "" RETURNING id, then Commit; a   *)
(* failure of BeginTx, of the insert or of the commit leaves no row        *)
AddInsert(g, dbOK, id) ==
    /\ pc[g] = "add_insert"
    /\ ~rows[id].exists
    /\ IF dbOK
       THEN /\ rows' = [rows EXCEPT ![id] = [exists |-> TRUE, photo |-> Nil]]
            /\ loc' = [loc EXCEPT ![g].id = id, ![g].rowWritten = TRUE]
            /\ pc' = [pc EXCEPT ![g] = "h_photo"]
       ELSE /\ rows' = rows
            /\ loc' = [loc EXCEPT ![g] =
                          HttpError(loc[g], StatusInternalServerError)]
            /\ pc' = [pc EXCEPT ![g] = "h_done"]
    /\ UNCHANGED <<clock, entries, geoCacheSetCount, muWriter, muReaders,
                   setsDone, sweeps, lastSet>>

CallUpdate(g, f) ==
    /\ pc[g] = "idle"
    /\ loc' = [loc EXCEPT ![g] = [Idle EXCEPT !.op = "update", !.form = f]]
    /\ pc' = [pc EXCEPT ![g] = "upd_begin"]
    /\ UNCHANGED <<clock, entries, geoCacheSetCount, muWriter, muReaders,
                   setsDone, sweeps, lastSet, rows>>

(* UpdateTasting up to the UPDATE: the method, the form, the id *)
UpdBegin(g) ==
    /\ pc[g] = "upd_begin"
    /\ LET f == loc[g].form
       IN IF f.method # "POST" \/ ~f.parses \/ f.id = Nil
          THEN /\ loc' = [loc EXCEPT ![g] = Redirect(loc[g])]
               /\ pc' = [pc EXCEPT ![g] = "h_done"]
          ELSE /\ loc' = [loc EXCEPT ![g].id = f.id]
               /\ pc' = [pc EXCEPT ![g] = "upd_write"]
    /\ UNCHANGED <<clock, entries, geoCacheSetCount, muWriter, muReaders,
                   setsDone, sweeps, lastSet, rows>>

(* UPDATE tastings SET product_name=..., finish_length=... WHERE id: every *)
(* column but photo_url                                                    *)
UpdWrite(g, dbOK) ==
    /\ pc[g] = "upd_write"
    /\ IF dbOK
       THEN /\ loc' = [loc EXCEPT ![g].rowWritten = rows[loc[g].id].exists]
            /\ pc' = [pc EXCEPT ![g] = "h_photo"]
       ELSE /\ loc' = [loc EXCEPT ![g] =
                          HttpError(loc[g], StatusInternalServerError)]
            /\ pc' = [pc EXCEPT ![g] = "h_done"]
    /\ UNCHANGED <<clock, entries, geoCacheSetCount, muWriter, muReaders,
                   setsDone, sweeps, lastSet, rows>>

(* file, header, err := r.FormFile("photo"), and the call of               *)
(* processAndUploadImage with the tasting id                               *)
TastingPhoto(g) ==
    /\ pc[g] = "h_photo"
    /\ IF loc[g].form.hasPhoto
       THEN /\ loc' = [loc EXCEPT ![g].img =
                          [loc[g].form.photo EXCEPT !.id = loc[g].id]]
            /\ pc' = [pc EXCEPT ![g] = "img_prepare"]
       ELSE /\ loc' = [loc EXCEPT ![g] = Redirect(loc[g])]
            /\ pc' = [pc EXCEPT ![g] = "h_done"]
    /\ UNCHANGED <<clock, entries, geoCacheSetCount, muWriter, muReaders,
                   setsDone, sweeps, lastSet, rows>>

TastingStoreAlways(g, dbOK) ==
    /\ pc[g] = "img_done"
    /\ loc[g].op \in {"add", "update"}
    /\ rows' = IF dbOK /\ rows[loc[g].id].exists
               THEN [rows EXCEPT ![loc[g].id].photo = loc[g].url]
               ELSE rows
    /\ loc' = [loc EXCEPT ![g] = Redirect(loc[g])]
    /\ pc' = [pc EXCEPT ![g] = "h_done"]
    /\ UNCHANGED <<clock, entries, geoCacheSetCount, muWriter, muReaders,
                   setsDone, sweeps, lastSet>>

(* if upErr != nil { log } else { UPDATE tastings SET photo_url=$1 WHERE   *)
(* id=$2, its failure logged }, then the redirect                          *)
TastingStore(g, dbOK) ==
    /\ pc[g] = "img_done"
    /\ loc[g].op \in {"add", "update"}
    /\ rows' = IF loc[g].err = "none" /\ dbOK /\ rows[loc[g].id].exists
               THEN [rows EXCEPT ![loc[g].id].photo = loc[g].url]
               ELSE rows
    /\ loc' = [loc EXCEPT ![g] = Redirect(loc[g])]
    /\ pc' = [pc EXCEPT ![g] = "h_done"]
    /\ UNCHANGED <<clock, entries, geoCacheSetCount, muWriter, muReaders,
                   setsDone, sweeps, lastSet>>

TastingReturn(g) ==
    /\ pc[g] = "h_done"
    /\ pc' = [pc EXCEPT ![g] = "idle"]
    /\ loc' = [loc EXCEPT ![g] = Idle]
    /\ UNCHANGED <<clock, entries, geoCacheSetCount, muWriter, muReaders,
                   setsDone, sweeps, lastSet, rows>>

NextTasting ==
    \/ Tick
    \/ \E g \in Goroutines :
          \/ \E f \in Forms({Nil}) : CallAdd(g, f)
          \/ AddBegin(g)
          \/ \E dbOK \in BOOLEAN, id \in RowIDs : AddInsert(g, dbOK, id)
          \/ \E f \in Forms(RowIDs) : CallUpdate(g, f)
          \/ UpdBegin(g)
          \/ \E dbOK \in BOOLEAN : UpdWrite(g, dbOK)
          \/ TastingPhoto(g)
          \/ ImgPrepare(g)
          \/ \E a \in PlainAnswers : ImgPost(g, a.res, a.st, a.b, a.rd)
          \/ \E dbOK \in BOOLEAN : TastingStore(g, dbOK)
          \/ TastingReturn(g)

SpecTasting == Init /\ [][NextTasting]_vars

(* ------------------------------ claims --------------------------------- *)

AtGetRet(g) == pc[g] = "get_ret"

(* C1: get answers (nil, false) whenever the time it reads is at or after  *)
(* the expiry of the entry it read, the instant of expiry included, and    *)
(* answers the body only strictly before the expiry.                       *)
C1_ExpiryInclusive ==
    \A g \in Goroutines :
        AtGetRet(g) =>
            /\ (loc[g].e.ok /\ loc[g].tnow >= loc[g].e.expiresAt)
                   => (~loc[g].rok /\ loc[g].rbody = Nil)
            /\ loc[g].rok
                   => (loc[g].e.ok /\ loc[g].tnow < loc[g].e.expiresAt
                       /\ loc[g].rbody = loc[g].e.body)

(* C2: a get that reads key k after set(k, b, ttl), no later set on k      *)
(* having been installed, answers (b, true) when it reads a time before    *)
(* the set's time plus ttl and (nil, false) when it reads a time past it,  *)
(* whatever gets, sets on other keys and sweeps ran in between.            *)
C2_RoundTrip ==
    \A g \in Goroutines :
        (AtGetRet(g) /\ loc[g].seen.set) =>
            LET s == loc[g].seen
                expiry == s.at + s.ttl
            IN /\ loc[g].tnow < expiry => (loc[g].rok /\ loc[g].rbody = s.body)
               /\ loc[g].tnow > expiry => (~loc[g].rok /\ loc[g].rbody = Nil)

C2_Witness ==
    \E g \in Goroutines :
        /\ AtGetRet(g) /\ loc[g].seen.set
        /\ loc[g].tnow > loc[g].seen.at
        /\ loc[g].rok
        /\ \E k \in loc[g].gone :
              /\ k # loc[g].key
              /\ loc[g].seen.at < lastSet[k].at + lastSet[k].ttl

PastInstall(g) ==
    pc[g] \in {"set_unlock", "cl_now", "cl_lock", "cl_sweep", "cl_unlock", "set_ret"}

SweepOwed(g) ==
    \/ pc[g] = "set_unlock" /\ loc[g].doCleanup
    \/ pc[g] \in {"cl_now", "cl_lock", "cl_sweep", "cl_unlock"}

Quiescent == \A g \in Goroutines : pc[g] = "idle"

(* C3: the counter equals the number of installs made (one per set, none   *)
(* lost), every install that brings it to a multiple of 50 is followed by  *)
(* one sweep, and once N calls of set have returned and none is running,   *)
(* cleanupExpired has run exactly N div 50 times.                          *)
C3_SweepCadence ==
    /\ geoCacheSetCount
          = setsDone + Cardinality({g \in Goroutines : PastInstall(g)})
    /\ sweeps + Cardinality({g \in Goroutines : SweepOwed(g)})
          = geoCacheSetCount \div SweepEvery
    /\ Quiescent => sweeps = setsDone \div SweepEvery

C3_Witness == Quiescent /\ setsDone > SweepEvery /\ sweeps = 1

InWrite(g) == pc[g] \in {"set_install", "set_unlock", "cl_sweep", "cl_unlock"}
InRead(g) == pc[g] \in {"get_read", "get_runlock"}

(* C8: a goroutine reads the map only holding the read lock, writes the    *)
(* map or the counter only holding the write lock, and a goroutine in a    *)
(* write section is alone in any section; readers may overlap.             *)
C8_LockDiscipline ==
    \A g \in Goroutines :
        /\ InWrite(g) <=> muWriter = g
        /\ InRead(g) <=> g \in muReaders
        /\ InWrite(g) =>
              \A h \in Goroutines \ {g} : ~InWrite(h) /\ ~InRead(h)

C8_Witness == Cardinality({g \in Goroutines : InRead(g)}) >= 2

Holds(g) == muWriter = g \/ g \in muReaders

(* C9: set has released the write lock when it calls cleanupExpired, which *)
(* takes the lock afresh; no goroutine asks for the lock while holding it. *)
C9_SweepOutsideInstall ==
    \A g \in Goroutines :
        pc[g] \in {"cl_now", "cl_lock", "set_lock", "get_rlock"} => ~Holds(g)

C9_Witness ==
    \E g \in Goroutines, h \in Goroutines :
        /\ g # h
        /\ loc[g].op = "set" /\ pc[g] \in {"cl_now", "cl_lock"}
        /\ muWriter = h

ProxyDone(g) == pc[g] = "px_done"

Answered(g) ==
    \/ loc[g].outcome = "hit"
    \/ loc[g].outcome = "response" /\ loc[g].status = StatusOK /\ loc[g].body # Nil

(* C4 as claimed: two nominatimProxy calls for the same URL, the lookups   *)
(* less than 24 hours apart, issue exactly one upstream GET in total, also *)
(* when they run concurrently (stated for a call that fetched and any      *)
(* other call, the upstream answering 200 and a non-empty body if asked).  *)
C4_SingleFetch ==
    \A g \in Goroutines, h \in Goroutines :
        ( /\ g # h
          /\ ProxyDone(g) /\ ProxyDone(h)
          /\ Answered(g) /\ Answered(h)
          /\ loc[g].outcome = "response"
          /\ loc[g].key = loc[h].key
          /\ loc[h].tnow - loc[g].tnow < GeoTTL
          /\ loc[g].tnow - loc[h].tnow < GeoTTL )
        => loc[g].gets + loc[h].gets = 1

PastLookup(g) ==
    /\ loc[g].op = "proxy"
    /\ pc[g] \notin {"get_rlock", "get_read", "get_runlock", "get_check"}

(* C4 amended: a call that stores a response has issued exactly one GET,   *)
(* and a call whose lookup reads the map after such a store on its URL,    *)
(* and the clock before that store's time plus 24 hours, issues no GET and *)
(* answers from the cache: one GET in total for the two calls.             *)
C4_HitWithinTTL ==
    \A g \in Goroutines :
        /\ (loc[g].op = "proxy" /\ loc[g].installed) => loc[g].gets = 1
        /\ (PastLookup(g) /\ loc[g].seen.set
                /\ loc[g].tnow < loc[g].seen.at + GeoTTL)
              => /\ loc[g].gets = 0
                 /\ pc[g] \in {"get_ret", "px_done"}
                 /\ ProxyDone(g) => loc[g].outcome = "hit"

C4_Witness ==
    \E g \in Goroutines :
        /\ ProxyDone(g) /\ loc[g].outcome = "hit"
        /\ loc[g].seen.set /\ loc[g].tnow > loc[g].seen.at
        /\ loc[g].tnow < loc[g].seen.at + GeoTTL
        /\ loc[g].gets = 0

(* C5: every entry of the map is what the last store on its key installed: *)
(* the non-empty body of an upstream response with status 200 to a GET on  *)
(* that key, expiring 24 hours after the store; only a call holding such a *)
(* response ever reaches set, and a call that ended otherwise (other       *)
(* status, empty body, transport or read error) has stored nothing.        *)
C5_Population ==
    /\ \A k \in URLs :
          entries[k].ok =>
              /\ entries[k].body # Nil
              /\ lastSet[k].set /\ lastSet[k].body = entries[k].body
              /\ lastSet[k].status = StatusOK
              /\ entries[k].expiresAt = lastSet[k].at + GeoTTL
    /\ \A g \in Goroutines :
          (pc[g] \in {"set_lock", "set_install"} \/ loc[g].installed) =>
              /\ loc[g].outcome = "response"
              /\ loc[g].status = StatusOK /\ loc[g].body # Nil
              /\ loc[g].ttl = GeoTTL
              /\ loc[g].installed =>
                    (lastSet[loc[g].key].set /\ lastSet[loc[g].key].at <= clock)

C5_Witness ==
    \E g \in Goroutines :
        /\ ProxyDone(g) /\ loc[g].outcome = "response"
        /\ loc[g].status # StatusOK /\ loc[g].body # Nil
        /\ ~loc[g].installed
        /\ entries[loc[g].key].ok

(* C6: when the upstream response was received, the client is written its  *)
(* status and its body as they are; on a cache hit the client is written   *)
(* 200 and the cached bytes, which an upstream 200 response delivered.     *)
C6_PassThrough ==
    \A g \in Goroutines :
        ProxyDone(g) =>
            /\ loc[g].outcome = "response"
                  => (loc[g].wstatus = loc[g].status /\ loc[g].wbody = loc[g].body)
            /\ loc[g].outcome = "hit"
                  => /\ loc[g].wstatus = StatusOK
                     /\ loc[g].wbody = loc[g].e.body
                     /\ loc[g].seen.set /\ loc[g].seen.status = StatusOK
                     /\ loc[g].wbody = loc[g].seen.body /\ loc[g].wbody # Nil

C6_Witness ==
    \E g \in Goroutines, h \in Goroutines :
        /\ ProxyDone(g) /\ loc[g].outcome = "response"
        /\ loc[g].status = StatusNotFound /\ loc[g].wbody # Nil
        /\ ProxyDone(h) /\ loc[h].outcome = "hit"

(* C7 as claimed: a failure of the connection or of the read of the        *)
(* response is answered with 502, a failure to build the request with 500, *)
(* and such a call has stored nothing.                                     *)
C7_FailureSignals ==
    \A g \in Goroutines :
        ProxyDone(g) =>
            /\ loc[g].outcome \in {"do_err", "read_err"}
                  => (loc[g].wstatus = StatusBadGateway /\ ~loc[g].installed)
            /\ loc[g].outcome = "newreq_err"
                  => (loc[g].wstatus = StatusInternalServerError
                      /\ ~loc[g].installed)

ImgDone(g) == pc[g] = "img_done"

(* C10: a nominatimProxy call issues at most one upstream GET, none on a   *)
(* cache hit and exactly one when the upstream failed or answered; a       *)
(* processAndUploadImage call issues at most one storage POST, exactly one *)
(* when the storage failed, refused or accepted.                           *)
C10_NoRetry ==
    \A g \in Goroutines :
        /\ loc[g].gets <= 1 /\ loc[g].posts <= 1
        /\ ProxyDone(g) =>
              /\ loc[g].posts = 0
              /\ loc[g].outcome \in {"hit", "newreq_err"} => loc[g].gets = 0
              /\ loc[g].outcome \in {"do_err", "read_err", "response"}
                    => loc[g].gets = 1
        /\ ImgDone(g) =>
              /\ loc[g].gets = 0
              /\ loc[g].err \in {"config", "too_large", "decode"}
                    => loc[g].posts = 0
              /\ (loc[g].err \in {"transport", "http"} \/ loc[g].url # Nil)
                    => loc[g].posts = 1

C10_Witness ==
    \E g \in Goroutines, h \in Goroutines :
        /\ ProxyDone(g) /\ loc[g].outcome = "do_err" /\ loc[g].gets = 1
        /\ ImgDone(h) /\ loc[h].err = "http" /\ loc[h].posts = 1

InImage(g) == loc[g].op = "image" /\ pc[g] \in {"img_post", "img_done"}

DeclaredOver(g) == loc[g].img.hasHeader /\ loc[g].img.size > 10 * 1024 * 1024

ConfigAbsent(g) == loc[g].supabaseURL = Nil \/ loc[g].jwtKey = Nil

(* C11 as claimed: every processAndUploadImage call whose header declares  *)
(* more than 10 MiB ends with the payload-too-large error, no decode       *)
(* having been attempted and no POST issued.                               *)
C11_SizeRejection ==
    \A g \in Goroutines :
        (InImage(g) /\ DeclaredOver(g)) =>
            /\ ImgDone(g) /\ loc[g].err = "too_large"
            /\ ~loc[g].decoded /\ loc[g].posts = 0 /\ loc[g].url = Nil

(* C11 amended: a call whose header declares more than 10 MiB ends with    *)
(* the payload-too-large error when the storage base URL and the           *)
(* credential are both present, and with the configuration error when one  *)
(* is absent; in both cases no decode was attempted and no POST issued.    *)
C11_SizeRejectionConfigured ==
    \A g \in Goroutines :
        (InImage(g) /\ DeclaredOver(g)) =>
            /\ ImgDone(g)
            /\ loc[g].err = IF ConfigAbsent(g) THEN "config" ELSE "too_large"
            /\ ~loc[g].decoded /\ loc[g].posts = 0 /\ loc[g].url = Nil

C11_Witness ==
    \E g \in Goroutines, h \in Goroutines :
        /\ ImgDone(g) /\ DeclaredOver(g) /\ loc[g].err = "too_large"
        /\ ImgDone(h) /\ ~DeclaredOver(h) /\ loc[h].img.hasHeader
        /\ loc[h].url # Nil

Resampled(g) == InImage(g) /\ loc[g].decoded /\ loc[g].err # "decode"

(* C12: a decoded image of width w <= 1200 is not resampled and keeps its  *)
(* width and height, the width 1200 included; one of width w > 1200 is     *)
(* resampled to width 1200 and to a height less than one pixel away from   *)
(* h * 1200 / w.                                                           *)
C12_ResizeThreshold ==
    \A g \in Goroutines :
        Resampled(g) =>
            LET w == loc[g].img.width
                h == loc[g].img.height
            IN /\ w <= 1200 =>
                     (~loc[g].resized /\ loc[g].ow = w /\ loc[g].oh = h)
               /\ w > 1200 =>
                     /\ loc[g].resized /\ loc[g].ow = 1200
                     /\ loc[g].oh * w - h * 1200 < w
                     /\ h * 1200 - loc[g].oh * w < w

C12_Witness ==
    \E g \in Goroutines, h \in Goroutines :
        /\ Resampled(g) /\ loc[g].img.width = 1200 /\ ~loc[g].resized
        /\ loc[g].url # Nil
        /\ Resampled(h) /\ loc[h].img.width = 2400 /\ loc[h].oh = 501
        /\ loc[h].url # Nil

Refused(g) ==
    /\ ImgDone(g) /\ loc[g].posts = 1 /\ loc[g].err # "transport"
    /\ ~(loc[g].status \in 200..299)

ImageMoves(g) ==
    /\ loc[g].op = "image" \/ loc'[g].op = "image"
    /\ pc'[g] # pc[g]

(* C13: a call the storage endpoint answers with a status outside 200..299 *)
(* returns no URL and an error holding that status and the body as read    *)
(* (the whole body when the read reached its end); and no step of a        *)
(* processAndUploadImage call changes the cache map, the write counter,    *)
(* the lock or anything another goroutine holds.                           *)
C13_UploadFailureIsolation ==
    /\ [](\A g \in Goroutines :
            Refused(g) =>
                /\ loc[g].err = "http" /\ loc[g].url = Nil
                /\ loc[g].readOK => loc[g].body = loc[g].sent)
    /\ [][\A g \in Goroutines :
            ImageMoves(g) =>
                /\ UNCHANGED <<entries, geoCacheSetCount, muWriter, muReaders,
                               setsDone, sweeps, lastSet, rows>>
                /\ \A h \in Goroutines \ {g} :
                      pc'[h] = pc[h] /\ loc'[h] = loc[h]]_vars

C13_Witness ==
    \E g \in Goroutines, h \in Goroutines :
        /\ Refused(g) /\ loc[g].status = 300 /\ loc[g].body = "b1"
        /\ pc[h] = "set_unlock" /\ muWriter = h
        /\ entries[loc[h].key].ok

EnvAbsent(g) == loc[g].img.envURL \in {"", "/"} \/ loc[g].img.envKey \in {"", " "}

(* C14: a call made with the storage base URL or the credential empty      *)
(* after trimming ends with the configuration error, no decode attempted   *)
(* and no POST issued; the failing step touches no other goroutine, and    *)
(* the next call of the same goroutine, made with both values present,     *)
(* does not fail on the configuration.                                     *)
C14_MissingConfig ==
    /\ [](\A g \in Goroutines :
            /\ (InImage(g) /\ EnvAbsent(g)) =>
                   /\ ImgDone(g) /\ loc[g].err = "config"
                   /\ ~loc[g].decoded /\ loc[g].posts = 0 /\ loc[g].url = Nil
            /\ (InImage(g) /\ ~EnvAbsent(g)) =>
                   /\ loc[g].err # "config"
                   /\ loc[g].supabaseURL = "https://s" /\ loc[g].jwtKey = "jwt")
    /\ [][\A g \in Goroutines :
            (pc[g] = "img_prepare" /\ loc'[g].err = "config") =>
                /\ pc'[g] = "img_done"
                /\ \A h \in Goroutines \ {g} :
                      pc'[h] = pc[h] /\ loc'[h] = loc[h]]_vars

C14_Witness ==
    \E g \in Goroutines, h \in Goroutines :
        /\ ImgDone(g) /\ loc[g].prevErr = "config" /\ loc[g].url # Nil
        /\ ImgDone(h) /\ loc[h].err = "config" /\ loc[h].img.envURL = "/"

Posting(g) == loc[g].op = "image" /\ (pc[g] = "img_post" \/ loc[g].posts > 0)

(* C15: a call whose bytes image.Decode refuses (configuration present,    *)
(* size within the limit) ends with the decode error, no URL and no POST;  *)
(* and a POST is prepared or issued only by a call that passed the         *)
(* configuration test and the size test, decoded its input and encoded an  *)
(* image whose sides jpeg.Encode accepts.                                  *)
C15_DecodeFailsClosed ==
    \A g \in Goroutines :
        /\ (InImage(g) /\ ~EnvAbsent(g) /\ ~DeclaredOver(g)
                /\ ~loc[g].img.decodable)
              => /\ ImgDone(g) /\ loc[g].err = "decode"
                 /\ loc[g].url = Nil /\ loc[g].posts = 0
        /\ Posting(g)
              => /\ ~EnvAbsent(g) /\ ~DeclaredOver(g)
                 /\ loc[g].img.decodable /\ loc[g].decoded
                 /\ loc[g].encoded
                 /\ loc[g].ow < 65536 /\ loc[g].oh < 65536
        /\ (ImgDone(g) /\ loc[g].err \in {"config", "too_large", "decode",
                                             "encode", "request"})
              => (loc[g].posts = 0 /\ loc[g].url = Nil)

C15_Witness ==
    \E g \in Goroutines, h \in Goroutines :
        /\ ImgDone(g) /\ loc[g].err = "decode" /\ loc[g].img.hasHeader
        /\ ImgDone(h) /\ loc[h].err = "encode" /\ loc[h].oh = 65536

Named(g) == InImage(g) /\ loc[g].fileName # Nil

Uploaded(g) == ImgDone(g) /\ loc[g].url # Nil

EndsInJpg(n) == Len(n) >= 4 /\ SubSeq(n, Len(n) - 3, Len(n)) = ".jpg"

(* C18: a successful call returns base + "/storage/v1/object/public/       *)
(* photos/" + name, having POSTed to base + "/storage/v1/object/photos/"   *)
(* + name with the same name; every name ends in ".jpg"; and two calls     *)
(* make the same name exactly when they have the same tasting identifier   *)
(* and read the same second, whatever the rest of their input.             *)
C18_ObjectName ==
    /\ \A g \in Goroutines :
          /\ Uploaded(g) =>
                /\ loc[g].url = "https://s" \o "/storage/v1/object/public/photos/"
                                    \o loc[g].fileName
                /\ loc[g].upurl = "https://s" \o "/storage/v1/object/photos/"
                                      \o loc[g].fileName
          /\ Named(g) => EndsInJpg(loc[g].fileName)
    /\ \A g \in Goroutines, h \in Goroutines :
          (Named(g) /\ Named(h)) =>
              (loc[g].fileName = loc[h].fileName
                  <=> (loc[g].img.id = loc[h].img.id
                         /\ loc[g].tname * 3600 = loc[h].tname * 3600))

C18_Witness ==
    \E g \in Goroutines, h \in Goroutines :
        /\ g # h /\ Uploaded(g) /\ Uploaded(h)
        /\ loc[g].img.width # loc[h].img.width
        /\ loc[g].url = loc[h].url /\ loc[g].tname > 0

HandlerDone(g) == pc[g] = "h_done"

UploadFailed(g) ==
    loc[g].op \in {"add", "update"} /\ pc[g] = "img_done" /\ loc[g].err # "none"

(* C16: a handler that has written its row and whose upload failed, for    *)
(* whatever reason, changes no row and answers with the redirect to "/",   *)
(* as does every handler that has written its row; a row changes only by   *)
(* the insert of AddTasting, with an empty photo_url, or by a handler      *)
(* whose upload succeeded, which sets the photo_url of its own row to the  *)
(* URL the upload returned.                                                *)
C16_CallerDegradation ==
    /\ [](\A g \in Goroutines :
            (HandlerDone(g) /\ loc[g].rowWritten) =>
                (loc[g].wstatus = 302 /\ loc[g].wbody = "/"))
    /\ [][/\ \A g \in Goroutines :
              (UploadFailed(g) /\ pc'[g] # pc[g]) =>
                  /\ rows' = rows
                  /\ pc'[g] = "h_done" /\ loc'[g].wstatus = 302
          /\ \A id \in RowIDs :
              rows'[id] # rows[id] =>
                  \/ ~rows[id].exists /\ rows'[id] = [exists |-> TRUE, photo |-> ""]
                  \/ \E g \in Goroutines :
                        /\ pc[g] = "img_done" /\ loc[g].id = id
                        /\ loc[g].err = "none" /\ loc[g].url # ""
                        /\ rows[id].exists
                        /\ rows'[id] = [exists |-> TRUE, photo |-> loc[g].url]
       ]_vars

C16_Witness ==
    \E g \in Goroutines, h \in Goroutines :
        /\ HandlerDone(g) /\ loc[g].op = "update" /\ loc[g].err = "http"
        /\ loc[g].rowWritten /\ rows[loc[g].id].photo = "old.jpg"
        /\ HandlerDone(h) /\ loc[h].op = "add" /\ loc[h].url # ""
        /\ rows[loc[h].id].photo = loc[h].url

Finished(g) == ProxyDone(g) \/ (ImgDone(g) /\ loc[g].op = "image")

(* what the caller is given: the status and body written to the client by  *)
(* nominatimProxy, the URL and error returned by processAndUploadImage     *)
Reported(g) ==
    IF loc[g].op = "proxy"
    THEN <<loc[g].wstatus, loc[g].wbody>>
    ELSE <<loc[g].url, loc[g].err,
           IF loc[g].err = "transport" THEN loc[g].cause ELSE "none">>

(* C17 as claimed: a call whose network call was cancelled in flight       *)
(* stores nothing, returns no URL, and reports an outcome different from   *)
(* the one a call of the same function reports after a timeout or after a  *)
(* transport failure.                                                      *)
C17_Cancellation ==
    \A g \in Goroutines :
        (Finished(g) /\ loc[g].cause = "cancelled") =>
            /\ ~loc[g].installed /\ loc[g].url = Nil
            /\ \A h \in Goroutines :
                  ( /\ Finished(h) /\ loc[h].op = loc[g].op
                    /\ loc[h].cause \in {"timeout", "failed"} )
                  => Reported(g) # Reported(h)

MaxClock == MaxTicks * TickStep

(* what get(k) returns from the map es when it reads the time t *)
LookupAt(es, k, t) ==
    IF GetFound(es[k], t) THEN <<es[k].body, TRUE>> ELSE <<Nil, FALSE>>

SetMoves(g) ==
    /\ loc[g].op = "set"
    /\ pc[g] \in {"set_lock", "set_install", "set_unlock",
                   "cl_now", "cl_lock", "cl_sweep", "cl_unlock"}
    /\ pc'[g] # pc[g]

(* C19: no step of set(k, ...), the steps of the sweep it may run          *)
(* included, changes what get(k2) returns, now or at any later time, for a *)
(* key k2 other than k, the two keys differing only in the order of their  *)
(* query parameters.                                                       *)
C19_KeyIsolation ==
    [][\A g \in Goroutines :
          SetMoves(g) =>
              \A k \in Keys \ {loc[g].key} :
                  \A t \in clock..MaxClock :
                      LookupAt(entries', k, t) = LookupAt(entries, k, t)]_vars

C19_Witness ==
    \E g \in Goroutines :
        /\ loc[g].op = "set" /\ pc[g] = "cl_unlock"
        /\ loc[g].key = "q?a=1&b=2" /\ entries[loc[g].key].ok
        /\ lastSet["q?b=2&a=1"].set /\ ~entries["q?b=2&a=1"].ok

GetMoves(g) ==
    /\ pc[g] \in {"get_rlock", "get_read", "get_runlock", "get_check"}
    /\ pc'[g] # pc[g]

(* C20: no step of get adds, removes or changes an entry or changes the    *)
(* write counter, a get that finds an expired entry included, and no step  *)
(* of get issues a request, the gets being those of nominatimProxy calls.  *)
C20_LookupReadOnly ==
    [][\A g \in Goroutines :
          GetMoves(g) =>
              /\ entries' = entries
              /\ geoCacheSetCount' = geoCacheSetCount
              /\ loc'[g].gets = loc[g].gets /\ loc'[g].posts = loc[g].posts]_vars

C20_Witness ==
    \E g \in Goroutines :
        /\ AtGetRet(g) /\ loc[g].op = "proxy"
        /\ loc[g].e.ok /\ ~loc[g].rok /\ loc[g].tnow > loc[g].e.expiresAt
        /\ entries[loc[g].key] = loc[g].e

AfterLookup(g) ==
    /\ loc[g].op = "proxy"
    /\ pc[g] \in {"get_ret", "px_newreq", "px_do", "px_read", "set_lock",
                   "set_install", "set_unlock", "set_ret", "px_write", "px_done"}

(* the entry the lookup of the call read was present and expired, the      *)
(* current time being at or past its expiry                                *)
FoundExpired(g) ==
    AfterLookup(g) /\ loc[g].e.ok /\ loc[g].tnow >= loc[g].e.expiresAt

(* C21 as claimed: a nominatimProxy call whose lookup reads an entry that  *)
(* is present and expired (the time at or past the expiry) is not served   *)
(* from the cache and issues one upstream GET; on 200 with a non-empty     *)
(* body it overwrites the entry with the new body and an expiry 24 hours   *)
(* after the store, which a get then returns; on anything else it stores   *)
(* nothing, and a get of the entry it left answers not found.              *)
C21_RefetchAfterExpiry ==
    \A g \in Goroutines :
        FoundExpired(g) =>
            /\ ~loc[g].rok
            /\ pc[g] = "px_done" => loc[g].gets = 1
            /\ pc[g] = "set_unlock" =>
                   /\ Cacheable(loc[g].status, loc[g].body)
                   /\ entries[loc[g].key]
                         = [ok |-> TRUE, body |-> loc[g].body,
                            expiresAt |-> lastSet[loc[g].key].at + GeoTTL]
                   /\ lastSet[loc[g].key].at >= loc[g].tnow
                   /\ GetFound(entries[loc[g].key], clock)
            /\ (pc[g] = "px_done"
                    /\ ~Cacheable(loc[g].status, loc[g].body)) =>
                   /\ ~loc[g].installed
                   /\ entries[loc[g].key] = loc[g].e
                          => ~GetFound(entries[loc[g].key], clock)

SweepDone(g) == pc[g] = "cl_unlock"

Sweeping(g) == pc[g] = "cl_sweep" /\ pc'[g] = "cl_unlock"

(* C22 as claimed: when the loop of cleanupExpired has finished, the map   *)
(* holds no entry that was expired (its expiry at or before the time the   *)
(* sweep read) and the sweep has deleted no entry that a get reading that  *)
(* time or a later one would return, an entry that another goroutine       *)
(* overwrote between the sweep's clock read and its lock included.         *)
C22_SweepPrecision ==
    /\ [](\A g \in Goroutines :
             SweepDone(g) =>
                 \A k \in URLs :
                     entries[k].ok => loc[g].now < entries[k].expiresAt)
    /\ [][\A g \in Goroutines :
             Sweeping(g) =>
                 \A k \in URLs :
                     (entries[k].ok /\ ~entries'[k].ok) =>
                         \A t \in loc[g].now..MaxClock :
                             ~GetFound(entries[k], t)]_vars

HoldsLock(g) == muWriter = g \/ g \in muReaders

(* the positions between a lock and its unlock *)
InCritical(g) ==
    pc[g] \in {"get_read", "get_runlock", "set_install", "set_unlock",
               "cl_sweep", "cl_unlock"}

Blocked(g) ==
    \/ pc[g] \in {"set_lock", "cl_lock"} /\ ~CanLock
    \/ pc[g] = "get_rlock" /\ ~CanRLock

(* C23: with get, set and cleanupExpired called concurrently and a fair    *)
(* scheduler, every call that has begun returns; a goroutine holds the     *)
(* lock only between its lock and its unlock, so that it has released it   *)
(* on every path when it returns; and in no reachable state are all        *)
(* goroutines blocked on the lock.                                         *)
C23_DeadlockFreedom ==
    /\ [](\A g \in Goroutines : HoldsLock(g) <=> InCritical(g))
    /\ [](\E g \in Goroutines : ~Blocked(g))
    /\ \A g \in Goroutines : (pc[g] # "idle") ~> (pc[g] = "idle")

C23_Witness ==
    /\ Blocked(1) /\ pc[1] = "set_lock"
    /\ pc[2] = "cl_unlock" /\ muWriter = 2

PastGuard(g) ==
    loc[g].handler # "none" /\ pc[g] \notin {"idle", "gs_guard", "gr_guard"}

GuardMoves(g) == pc[g] \in {"gs_guard", "gr_guard"} /\ pc'[g] # pc[g]

TrimmedQ(g) == TrimSpaceRunes(loc[g].form.q)
TrimmedLat(g) == TrimSpaceRunes(loc[g].form.lat)
TrimmedLon(g) == TrimSpaceRunes(loc[g].form.lon)
TrimmedEmail(g) == TrimSpaceRunes(loc[g].form.email)

(* the handler has answered itself: no call of nominatimProxy, no GET, no *)
(* store, and the goroutine was never inside get                          *)
TurnedAway(g) ==
    /\ pc[g] = "px_done" /\ loc[g].op # "proxy"
    /\ loc[g].calls = 0 /\ loc[g].gets = 0 /\ ~loc[g].installed

(* the guards of the two handlers, the length of a value measured by Size *)
GuardsApplied(Size(_)) ==
    \A g \in Goroutines :
             PastGuard(g) =>
                 LET short == /\ loc[g].handler = "search"
                              /\ Size(TrimmedQ(g)) < 2
                     bad == /\ loc[g].handler = "reverse"
                            /\ \/ TrimmedLat(g) = <<>> \/ TrimmedLon(g) = <<>>
                               \/ Size(TrimmedLat(g)) > 20
                               \/ Size(TrimmedLon(g)) > 20
                 IN /\ short => (TurnedAway(g) /\ loc[g].wbody = "[]"
                                               /\ loc[g].wstatus = StatusOK)
                    /\ bad => (TurnedAway(g)
                                  /\ loc[g].wstatus = StatusBadRequest)
                    /\ (~short /\ ~bad) =>
                          /\ loc[g].calls = 1
                          /\ loc[g].key =
                                IF loc[g].handler = "search"
                                THEN SearchURL(TrimmedQ(g), TrimmedEmail(g))
                                ELSE ReverseURL(TrimmedLat(g), TrimmedLon(g),
                                                TrimmedEmail(g))

(* the step that applies the guards touches neither the map, nor the      *)
(* counter, nor the lock                                                   *)
GuardsQuiet ==
    \A g \in Goroutines :
        GuardMoves(g) =>
            /\ entries' = entries
            /\ geoCacheSetCount' = geoCacheSetCount
            /\ muReaders' = muReaders /\ muWriter' = muWriter

(* C24 as claimed: GeoSearch with a trimmed query of fewer than 2          *)
(* characters answers [], GeoReverse with lat or lon missing or longer     *)
(* than 20 characters answers 400, in both cases without calling           *)
(* nominatimProxy and without reading or writing the cache; every other    *)
(* request calls nominatimProxy exactly once with the URL built from the   *)
(* trimmed inputs.                                                         *)
C24_EndpointGuards == [](GuardsApplied(Len)) /\ [][GuardsQuiet]_vars

(* C24 amended: the same with the lengths counted in bytes of the UTF-8    *)
(* encoding: a query of fewer than 2 bytes, a lat or lon of more than 20   *)
(* bytes.                                                                  *)
C24_EndpointGuardsBytes ==
    [](GuardsApplied(ByteLen)) /\ [][GuardsQuiet]_vars

C24_Witness ==
    \E g, h \in Goroutines :
        /\ loc[g].handler = "search" /\ TurnedAway(g)
        /\ loc[g].form.q = <<160, 80, 32>>
        /\ loc[h].handler = "reverse" /\ pc[h] = "px_done"
        /\ loc[h].calls = 1 /\ loc[h].installed

====
